---- MODULE Spec2Model ----
(***************************************************************************)
(* A model of djangobwr's bower_install management command                 *)
(* (src/djangobwr/management/commands/bower_install.py).                   *)
(*                                                                         *)
(* Paths are modelled structurally.  A file below a component directory is *)
(* a record [dir, name]: dir is the sub-directory ("" for the component    *)
(* directory itself) and name is the file name split at its dots, so that  *)
(* "dist/jquery.min.js" is [dir |-> "dist", name |-> <<"jquery","min",     *)
(* "js">>].  os.path.splitext, os.path.basename, glob.glob and the ".min"  *)
(* insertion are computed on that structure.  A main pattern has the same  *)
(* shape, with "*" allowed as the directory or as a whole name segment.    *)
(*                                                                         *)
(* A staged file is "absent", "dangling" (a symbolic link whose target is  *)
(* missing: os.path.lexists is true, os.path.exists is false) or holds a   *)
(* content.  A JSON value is a record [t, v] with t in "null" (the key is  *)
(* absent or null: dict.get returns None), "str" and "list".               *)
(*                                                                         *)
(* The process is single-threaded.  One step of clean_components_to_       *)
(* static_dir is the entry into a component directory (EnterComponent) or  *)
(* one pass of the innermost loop body (ProcessMatch).  Flatten never      *)
(* writes below bower_dir, so the glob results of a component are listed   *)
(* when it is entered; os.listdir and glob list in the fixed order of      *)
(* listing and PathOrder.  temp_dir itself (created by lines 162-163 when  *)
(* missing) lies outside COMPONENT_ROOT and has no state of its own.       *)
(* The variables ops, last, out0, run and loads record what happened; the  *)
(* program does not read them.                                             *)
(***************************************************************************)
EXTENDS Naturals, Sequences, FiniteSets, TLC

VARIABLES
    listing,       \* os.listdir(bower_dir): the component directories, in order
    staging,       \* the staged tree: component name -> descriptors and files
    bower_dir,     \* "dir" when temp_dir/bower_components exists, else "missing"
    out_dirs,      \* the directories that exist under COMPONENT_ROOT
    out_files,     \* the files under COMPONENT_ROOT: <<dst_root, base>> -> content
    out0,          \* the files under COMPONENT_ROOT when the process started
    with_version,  \* self.with_version
    bower_info,    \* Command.bower_info, the class-level descriptor cache
    pc,            \* position of the process
    ci,            \* index in listing of the component being flattened
    main_list,     \* local main_list of clean_components_to_static_dir
    version,       \* local version
    dst_root,      \* local dst_root
    matches,       \* the matched source paths of the component still to process
    error,         \* the exception that ended the run, "" when none
    exit_code,     \* the process exit status, read when pc = "exit"
    run,           \* number of calls of clean_components_to_static_dir so far
    ops,           \* the file-system writes of the current flatten run, in order
    last,          \* what the latest loop body (lines 116-148) did
    discovered,    \* what AppDirectoriesFinderBower().list([]) yields, in order
    npm_list,      \* local npm_list of handle
    grunt_list,    \* local grunt_list of handle
    bower_list,    \* local bower_list of handle
    todo,          \* the paths of the current for-loop of handle still to visit
    calls,         \* the external commands run so far, in order
    cwd,           \* the process working directory
    temp_dir,      \* local temp_dir of handle (absolute)
    checked,       \* local bower_dir of handle: the path of line 187, "" before
    loads          \* the descriptor accesses of this process, in order

vars == <<listing, staging, bower_dir, out_dirs, out_files, out0, with_version,
          bower_info, pc, ci, main_list, version, dst_root, matches, error,
          exit_code, run, ops, last, discovered, npm_list, grunt_list,
          bower_list, todo, calls, cwd, temp_dir, checked, loads>>

\* ------------------------------------------------------------------ bounds

\* Flatten runs made one after the other in one behaviour.
MaxRuns == 2

\* Length of the longest discovery sequence handle is given.
MaxDiscovered == 3

\* Direct calls of get_bower_main_list and get_bower_version in one process.
MaxCalls == 3

\* ------------------------------------------------------------- JSON values

JNull == [t |-> "null", v |-> <<>>]

JStr(s) == [t |-> "str", v |-> s]

JList(l) == [t |-> "list", v |-> l]

\* ------------------------------------------------------------------- paths

P(d, n) == [dir |-> d, name |-> n]

\* The empty string as a pattern.
EmptyStr == P("", <<>>)

\* os.path.splitext on the file name: the stem and the extension (the last
\* dot-separated segment), the extension empty when the name has no dot.
SplitExt(p) ==
    IF Len(p.name) >= 2
    THEN [path |-> P(p.dir, SubSeq(p.name, 1, Len(p.name) - 1)),
          ext  |-> <<p.name[Len(p.name)]>>]
    ELSE [path |-> p, ext |-> <<>>]

\* min_path = path + ".min" + ext
MinPath(p) ==
    LET s == SplitExt(p)
    IN  P(s.path.dir, s.path.name \o <<"min">> \o s.ext)

\* os.path.basename
Basename(p) == p.name

\* fnmatch on a file name, segment by segment: "*" stands for one or more
\* whole segments (the names of the model have no empty segment and no
\* leading dot).
RECURSIVE FnMatch(_, _)
FnMatch(pat, name) ==
    IF pat = <<>> THEN name = <<>>
    ELSE IF name = <<>> THEN FALSE
    ELSE IF Head(pat) = "*"
         THEN \E k \in 1..Len(name) :
                 FnMatch(Tail(pat), SubSeq(name, k + 1, Len(name)))
         ELSE Head(pat) = Head(name) /\ FnMatch(Tail(pat), Tail(name))

\* Whether path p is matched by pattern pat.
PathMatch(pat, p) ==
    /\ IF pat.dir = "*" THEN p.dir # "" ELSE pat.dir = p.dir
    /\ FnMatch(pat.name, p.name)

\* ------------------------------------------------------------ staged files

\* The files a component directory may hold, in the order glob lists them.
PathOrder ==
    << P("dist", <<"jquery", "js">>),
       P("dist", <<"jquery", "min", "js">>),
       P("src", <<"jquery", "js">>),
       P("", <<"lodash", "js">>) >>

StagePaths == {PathOrder[i] : i \in 1..Len(PathOrder)}

\* os.path.exists on a staged path: false for a dangling link.
Exists(files, p) == p \in DOMAIN files /\ files[p] \notin {"absent", "dangling"}

\* os.path.lexists, which glob uses: true for a dangling link.
LExists(files, p) == p \in DOMAIN files /\ files[p] # "absent"

\* glob.glob(os.path.join(src_root, pattern)) below one component.
Glob(files, pat) ==
    SelectSeq(PathOrder, LAMBDA p : LExists(files, p) /\ PathMatch(pat, p))

\* hashlib.sha1(content).hexdigest()
Sha1(content) == "sha1(" \o content \o ")"

\* ------------------------------------------------------------- descriptors

\* The descriptor file names in the order line 101 tries them.
DescriptorNames == <<"bower.json", ".bower.json">>

NoFile == [exists |-> FALSE, main |-> JNull, version |-> JNull]

Doc(m, v) == [exists |-> TRUE, main |-> m, version |-> v]

\* A mutant of SelectDescriptor: the two names are tried in the other order.
SelectDescriptorFallbackFirst(comp) ==
    IF comp.desc[DescriptorNames[2]].exists THEN DescriptorNames[2]
    ELSE IF comp.desc[DescriptorNames[1]].exists THEN DescriptorNames[1]
    ELSE ""

\* The descriptor that line 101-103 selects for a component: the first name
\* of DescriptorNames whose file exists, "" when there is none.
SelectDescriptor(comp) ==
    IF comp.desc[DescriptorNames[1]].exists THEN DescriptorNames[1]
    ELSE IF comp.desc[DescriptorNames[2]].exists THEN DescriptorNames[2]
    ELSE ""

\* A mutant of get_bower_info: the test of line 67 is dropped and the file
\* is loaded at every call.
get_bower_info_NoCache(cache, path, doc) ==
    (path :> [main |-> doc.main, version |-> doc.version]) @@ cache

\* get_bower_info: load and store the document unless the path is cached
\* (the assignment of line 68 replaces what the key held).
get_bower_info(cache, path, doc) ==
    IF path \in DOMAIN cache THEN cache
    ELSE (path :> [main |-> doc.main, version |-> doc.version]) @@ cache

\* One access to a descriptor through the cache: the method called, the
\* path, whether the call wrote the cache (line 68: the file was read and
\* parsed), the document on disk at that time and the document the cache
\* holds after the call.
Access(kind, path, before, after, doc) ==
    [kind |-> kind, path |-> path, parsed |-> after # before,
     disk |-> [main |-> doc.main, version |-> doc.version],
     stored |-> after[path]]

\* Python truth of a value that is not a list: None and "" are false.
Truthy(j) == j.t = "str" /\ j.v # EmptyStr

\* A mutant of get_bower_main_list: main is tested against None, not for
\* truth.
get_bower_main_list_NotNone(info) ==
    IF info.main.t = "list" THEN info.main.v
    ELSE IF info.main.t = "str" THEN <<info.main.v>>
    ELSE <<>>

\* get_bower_main_list on the cached document.
get_bower_main_list(info) ==
    IF info.main.t = "list" THEN info.main.v
    ELSE IF Truthy(info.main) THEN <<info.main.v>>
    ELSE <<>>

\* get_bower_version on the cached document.
get_bower_version(info) == info.version

\* filter(None, main_list)
FilterNone(l) == SelectSeq(l, LAMBDA pat : pat # EmptyStr)

\* A mutant of DstRoot: a missing version leaves the directory unsuffixed.
DstRootUnsuffixed(directory, wv, ver) ==
    IF wv /\ ver.t = "str"
    THEN [raised |-> FALSE, root |-> directory \o "-" \o ver.v]
    ELSE [raised |-> FALSE, root |-> directory]

\* A mutant of DstRoot: a declared version is appended whether or not
\* --with-version was given.
DstRootAlwaysTagged(directory, wv, ver) ==
    IF ver.t = "str" THEN [raised |-> FALSE, root |-> directory \o "-" \o ver.v]
    ELSE [raised |-> wv, root |-> directory]

\* Lines 107-110: the destination directory, relative to COMPONENT_ROOT, and
\* whether computing it raises ("-" + None is a TypeError).
DstRoot(directory, wv, ver) ==
    IF ~wv THEN [raised |-> FALSE, root |-> directory]
    ELSE IF ver.t = "str" THEN [raised |-> FALSE, root |-> directory \o "-" \o ver.v]
    ELSE [raised |-> TRUE, root |-> directory]

\* Lines 112-115: the matched source paths of all patterns, in loop order.
RECURSIVE AllMatches(_, _)
AllMatches(files, patterns) ==
    IF patterns = <<>> THEN <<>>
    ELSE Glob(files, Head(patterns)) \o AllMatches(files, Tail(patterns))

\* A mutant of EffectiveSource: the minified sibling is not looked for.
EffectiveSourceNoMin(files, src_path) == src_path

\* Lines 117-120: the effective source of a matched path.
EffectiveSource(files, src_path) ==
    IF Exists(files, MinPath(src_path)) THEN MinPath(src_path) ELSE src_path

\* A mutant of SameDigest: an existing destination is never overwritten.
SameDigestAlways(src_content, dst_content) == TRUE

\* Lines 134-141: whether the copy is skipped because the digests agree.
SameDigest(src_content, dst_content) == Sha1(src_content) = Sha1(dst_content)

\* ------------------------------------------------- clean_components_to_static_dir

NoLast ==
    [set |-> FALSE, comp |-> "", src |-> EmptyStr, eff |-> EmptyStr,
     missing |-> FALSE, root |-> "", base |-> <<>>, dst_before |-> "absent",
     mkdir |-> FALSE, wrote |-> {}, outcome |-> ""]

MkdirOp(c, root) ==
    [op |-> "makedirs", comp |-> c, root |-> root, base |-> <<>>, content |-> ""]

CopyOp(c, root, base, content) ==
    [op |-> "copy", comp |-> c, root |-> root, base |-> base, content |-> content]

\* A mutant of ShutilCopy: the output is recreated with the copied file
\* alone.
ShutilCopyAlone(out, dst_path, content) == (dst_path :> content)

\* shutil.copy(src_path, dst_root): the file dst_root/basename is created
\* or overwritten, the other files are left as they are.
ShutilCopy(out, dst_path, content) ==
    [q \in DOMAIN out \cup {dst_path} |->
        IF q = dst_path THEN content ELSE out[q]]

\* Lines 96-110 and the globbing of lines 112-115 for the next directory of
\* os.listdir(bower_dir): select the descriptor, load it through the cache,
\* compute dst_root and list the matches.  A directory without descriptor
\* is passed over; a missing version under --with-version raises.
EnterComponent ==
    /\ pc = "flatten" /\ matches = <<>> /\ ci < Len(listing)
    /\ LET directory == listing[ci + 1]
           comp == staging[directory]
           sel  == SelectDescriptor(comp)
           bower_json_path == <<directory, sel>>
           cache == get_bower_info(bower_info, bower_json_path, comp.desc[sel])
           ml   == get_bower_main_list(cache[bower_json_path])
           ver  == get_bower_version(cache[bower_json_path])
           dr   == DstRoot(directory, with_version, ver)
       IN  /\ ci' = ci + 1
           /\ IF sel = ""
              THEN UNCHANGED <<bower_info, main_list, version, dst_root,
                               matches, pc, error, loads>>
              ELSE /\ bower_info' = cache
                   /\ loads' = loads \o
                        << Access("main", bower_json_path, bower_info, cache,
                                  comp.desc[sel]),
                           Access("version", bower_json_path, cache, cache,
                                  comp.desc[sel]) >>
                   /\ main_list' = ml
                   /\ version' = ver
                   /\ dst_root' = dr.root
                   /\ IF dr.raised
                      THEN /\ pc' = "raised"
                           /\ error' = "TypeError"
                           /\ UNCHANGED matches
                      ELSE /\ matches' = AllMatches(comp.files, FilterNone(ml))
                           /\ UNCHANGED <<pc, error>>
    /\ UNCHANGED <<listing, staging, bower_dir, out_dirs, out_files, out0,
                   with_version, exit_code, run, ops, last, discovered,
                   npm_list, grunt_list, bower_list, todo, calls, cwd, temp_dir,
                   checked>>

\* Lines 116-148, one pass of the innermost loop body for the next match.
ProcessMatch ==
    /\ pc = "flatten" /\ matches # <<>>
    /\ LET directory == listing[ci]
           files    == staging[directory].files
           src_path == EffectiveSource(files, Head(matches))
           missing  == ~Exists(files, src_path)
           base     == Basename(src_path)
           dst_path == <<dst_root, base>>
           dst_there == dst_path \in DOMAIN out_files
           skip     == /\ dst_there /\ ~missing
                       /\ SameDigest(files[src_path], out_files[dst_path])
           \* open(src_path) at line 135 raises before anything is written
           raise_open == dst_there /\ missing
           \* shutil.copy at line 148 raises after the makedirs of line 145
           raise_copy == ~dst_there /\ missing
           mkdir    == ~skip /\ ~raise_open /\ dst_root \notin out_dirs
           copy     == ~skip /\ ~missing
           new_files == IF copy
                        THEN ShutilCopy(out_files, dst_path, files[src_path])
                        ELSE out_files
           rec(o)   == [set |-> TRUE, comp |-> directory, src |-> Head(matches),
                        eff |-> src_path, missing |-> missing, root |-> dst_root,
                        base |-> base,
                        dst_before |-> IF dst_there THEN out_files[dst_path]
                                       ELSE "absent",
                        mkdir |-> mkdir,
                        wrote |-> {q \in DOMAIN new_files :
                                     \/ q \notin DOMAIN out_files
                                     \/ new_files[q] # out_files[q]},
                        outcome |-> o]
       IN  /\ matches' = Tail(matches)
           /\ out_dirs' = IF mkdir THEN out_dirs \cup {dst_root} ELSE out_dirs
           /\ out_files' = new_files
           /\ ops' = ops
                     \o (IF mkdir THEN <<MkdirOp(directory, dst_root)>> ELSE <<>>)
                     \o (IF copy
                         THEN <<CopyOp(directory, dst_root, base, files[src_path])>>
                         ELSE <<>>)
           /\ last' = rec(IF skip THEN "skip" ELSE IF copy THEN "copy" ELSE "raise")
           /\ IF raise_open \/ raise_copy
              THEN pc' = "raised" /\ error' = "IOError"
              ELSE UNCHANGED <<pc, error>>
    /\ UNCHANGED <<listing, staging, bower_dir, out0, with_version, bower_info,
                   ci, main_list, version, dst_root, exit_code, run, discovered,
                   npm_list, grunt_list, bower_list, todo, calls, cwd, temp_dir,
                   checked, loads>>

\* The loop of line 96 is exhausted: clean_components_to_static_dir returns.
FlattenReturn ==
    /\ pc = "flatten" /\ matches = <<>> /\ ci = Len(listing)
    /\ pc' = "done"
    /\ UNCHANGED <<listing, staging, bower_dir, out_dirs, out_files, out0,
                   with_version, bower_info, ci, main_list, version, dst_root,
                   matches, error, exit_code, run, ops, last, discovered,
                   npm_list, grunt_list, bower_list, todo, calls, cwd, temp_dir,
                   checked, loads>>

\* clean_components_to_static_dir is called again on the unchanged tree, by
\* the same process (the cache is kept) or by a new one (the cache is empty).
Rerun ==
    /\ pc = "done" /\ run < MaxRuns
    /\ pc' = "flatten"
    /\ run' = run + 1
    /\ ci' = 0
    /\ ops' = <<>>
    /\ last' = NoLast
    /\ \E keep \in BOOLEAN :
          /\ bower_info' = IF keep THEN bower_info ELSE <<>>
          /\ loads' = IF keep THEN loads ELSE <<>>
    /\ UNCHANGED <<listing, staging, bower_dir, out_dirs, out_files, out0,
                   with_version, main_list, version, dst_root, matches, error,
                   exit_code, discovered, npm_list, grunt_list, bower_list,
                   todo, calls, cwd, temp_dir, checked>>

\* ------------------------------------------------------------ staged trees

JQ == P("dist", <<"jquery", "js">>)

JQMin == P("dist", <<"jquery", "min", "js">>)

JQSrc == P("src", <<"jquery", "js">>)

LO == P("", <<"lodash", "js">>)

Files(a, b, c, d) ==
    [p \in StagePaths |->
        IF p = JQ THEN a ELSE IF p = JQMin THEN b ELSE IF p = JQSrc THEN c ELSE d]

\* The values of "main" the descriptors of the model declare.
Mains ==
    { JNull,
      JStr(EmptyStr),
      JStr(JQ),
      JStr(P("*", <<"jquery", "js">>)),
      JList(<<>>),
      JList(<<P("dist", <<"*", "js">>), EmptyStr, JQSrc>>) }

Versions == {JNull, JStr("3.1.0")}

Descs(b, d) == (DescriptorNames[1] :> b) @@ (DescriptorNames[2] :> d)

\* The jquery component directories of the model.
JqueryComponents ==
    { [desc |-> Descs(b, d), files |-> Files(x, y, z, "absent")] :
        b \in {NoFile} \cup {Doc(m, v) : m \in Mains, v \in Versions},
        d \in {NoFile, Doc(JStr(JQSrc), JStr("2.0.0"))},
        x \in {"absent", "A", "dangling"},
        y \in {"absent", "B", "dangling"},
        z \in {"absent", "A", "B"} }

\* The lodash component directories of the model.
LodashComponents ==
    { [desc |-> Descs(NoFile, NoFile), files |-> Files("absent", "absent", "absent", "A")],
      [desc |-> Descs(Doc(JStr(LO), JStr("4.0.0")), NoFile),
       files |-> Files("absent", "absent", "absent", "A")],
      [desc |-> Descs(Doc(JStr(LO), JStr("4.0.0")), NoFile),
       files |-> Files("absent", "absent", "absent", "dangling")],
      [desc |-> Descs(Doc(JStr(LO), JNull), NoFile),
       files |-> Files("absent", "absent", "absent", "A")] }

Listings == {<<"jquery">>, <<"jquery", "lodash">>, <<"lodash", "jquery">>}

\* What COMPONENT_ROOT holds before the run: nothing, or one file left by an
\* earlier run.
InitialOutputs ==
    { <<>>,
      <<"jquery", Basename(JQ)>> :> "A",
      <<"jquery", Basename(JQMin)>> :> "B",
      <<"jquery-3.1.0", Basename(JQMin)>> :> "A" }

\* The state in which clean_components_to_static_dir(bower_dir) is entered.
InitFlatten ==
    /\ listing \in Listings
    /\ \E j \in JqueryComponents, l \in LodashComponents :
          staging = IF Len(listing) = 1 THEN ("jquery" :> j)
                    ELSE ("jquery" :> j) @@ ("lodash" :> l)
    /\ bower_dir = "dir"
    /\ out_files \in InitialOutputs
    /\ out_dirs = {q[1] : q \in DOMAIN out_files}
    /\ out0 = out_files
    /\ with_version \in BOOLEAN
    /\ bower_info = <<>>
    /\ pc = "flatten"
    /\ ci = 0
    /\ main_list = <<>>
    /\ version = JNull
    /\ dst_root = ""
    /\ matches = <<>>
    /\ error = ""
    /\ exit_code = 0
    /\ run = 1
    /\ ops = <<>>
    /\ last = NoLast
    /\ discovered = <<>>
    /\ npm_list = <<>>
    /\ grunt_list = <<>>
    /\ bower_list = <<>>
    /\ todo = <<>>
    /\ calls = <<>>
    /\ cwd = "/project"
    /\ temp_dir = "/project/.tmp"
    /\ checked = "/project/.tmp/bower_components"
    /\ loads = <<>>

NextFlatten == EnterComponent \/ ProcessMatch \/ FlattenReturn \/ Rerun

Spec == InitFlatten /\ [][NextFlatten]_vars

\* ------------------------------------------------------------------ handle

\* A discovered (path, storage) pair: the relative path, split into its
\* directory ("" at the top of the storage) and file name, and
\* storage.location.
Entry(d, f, loc) == [dir |-> d, file |-> f, location |-> loc]

\* A mutant of PathIs: the file name alone is compared.
PathIsBasename(e, name) == e.file = name

\* path == name, on the whole relative path (lines 169-173).
PathIs(e, name) == e.dir = "" /\ e.file = name

\* Lines 165-176: the absolute paths of the entries named name, in order.
Partition(found, name) == SelectSeq(found, LAMBDA e : PathIs(e, name))

\* os.path.dirname(os.path.join(storage.location, path))
Dirname(e) == IF e.dir = "" THEN e.location ELSE e.location \o "/" \o e.dir

\* A mutant of Abspath: the name is left relative.
AbspathRelative(dir, name) == name

\* os.path.abspath(name) for a relative name
Abspath(dir, name) == dir \o "/" \o name

\* os.path.join
PathJoin(a, b) == a \o "/" \o b

Call(cmd, arg, dir, res) == [cmd |-> cmd, arg |-> arg, dir |-> dir, result |-> res]

NoEntry == Entry("", "", "")

\* A mutant of NothingToClean: the test of line 190 is dropped.
NothingToCleanNever(bd) == FALSE

\* Line 190: there is nothing to clean.
NothingToClean(bd) == bd = "missing"

\* Lines 153-176: read the option, resolve temp_dir against the working
\* directory, and partition what the finder yields.
HandleStart ==
    /\ pc = "handle"
    /\ temp_dir' = Abspath(cwd, ".tmp")
    /\ npm_list' = Partition(discovered, "package.json")
    /\ grunt_list' = Partition(discovered, "Gruntfile.js")
    /\ bower_list' = Partition(discovered, "bower.json")
    /\ todo' = npm_list'
    /\ pc' = "npm"
    /\ UNCHANGED <<listing, staging, bower_dir, out_dirs, out_files, out0,
                   with_version, bower_info, ci, main_list, version, dst_root,
                   matches, error, exit_code, run, ops, last, discovered,
                   calls, cwd, checked, loads>>

\* Lines 31-33 for the next path of the loop of line 178.
npm_install ==
    /\ pc = "npm" /\ todo # <<>>
    /\ cwd' = Dirname(Head(todo))
    /\ calls' = Append(calls, Call("npm install", Head(todo), cwd', "done"))
    /\ todo' = Tail(todo)
    /\ UNCHANGED <<listing, staging, bower_dir, out_dirs, out_files, out0,
                   with_version, bower_info, pc, ci, main_list, version,
                   dst_root, matches, error, exit_code, run, ops, last,
                   discovered, npm_list, grunt_list, bower_list, temp_dir,
                   checked, loads>>

\* Lines 35-37 for the next path of the loop of line 181.
grunt_default ==
    /\ pc = "grunt" /\ todo # <<>>
    /\ cwd' = Dirname(Head(todo))
    /\ calls' = Append(calls, Call("grunt", Head(todo), cwd', "done"))
    /\ todo' = Tail(todo)
    /\ UNCHANGED <<listing, staging, bower_dir, out_dirs, out_files, out0,
                   with_version, bower_info, pc, ci, main_list, version,
                   dst_root, matches, error, exit_code, run, ops, last,
                   discovered, npm_list, grunt_list, bower_list, temp_dir,
                   checked, loads>>

\* A mutant of ExitStatus: the two statuses exchanged.
ExitStatusSwapped(probe) == IF probe = "OSError" THEN 2 ELSE 1

\* Lines 51-56: the exit status for a failed probe.
ExitStatus(probe) == IF probe = "OSError" THEN 1 ELSE 2

\* A mutant of ProbeThenInstall: the install command runs before the probe.
InstallThenProbe(probe_call, install_call) == <<install_call, probe_call>>

\* Lines 50 and 64: the commands of a call whose probe succeeds, in order.
ProbeThenInstall(probe_call, install_call) == <<probe_call, install_call>>

\* Lines 39-64 for the next path of the loop of line 184: the version probe
\* finds the tool ("ok"), does not find it (OSError, exit(1)) or fails
\* (CalledProcessError, exit(2)); after a successful probe the install
\* command runs, its exit status unread, and may create bower_components.
bower_install ==
    /\ pc = "bower" /\ todo # <<>>
    /\ \E probe \in {"ok", "OSError", "CalledProcessError"} :
          IF probe = "ok"
          THEN /\ calls' = calls \o
                      ProbeThenInstall(
                         Call("bower --version", NoEntry, cwd, probe),
                         Call("bower install", Head(todo), temp_dir, "done"))
               /\ bower_dir' \in {bower_dir, "dir"}
               /\ todo' = Tail(todo)
               /\ UNCHANGED <<pc, exit_code>>
          ELSE /\ calls' = Append(calls, Call("bower --version", NoEntry, cwd, probe))
               /\ pc' = "exit"
               /\ exit_code' = ExitStatus(probe)
               /\ UNCHANGED <<bower_dir, todo>>
    /\ UNCHANGED <<listing, staging, out_dirs, out_files, out0, with_version,
                   bower_info, ci, main_list, version, dst_root, matches, error,
                   run, ops, last, discovered, npm_list, grunt_list, bower_list,
                   cwd, temp_dir, checked, loads>>

\* The loop of line 178, 181 or 184 is exhausted: go on to the next one, and
\* after the last to lines 187-194: exit 0 when bower_components is missing,
\* else call clean_components_to_static_dir.
NextLoop ==
    /\ pc \in {"npm", "grunt", "bower"} /\ todo = <<>>
    /\ IF pc = "npm"
       THEN /\ pc' = "grunt" /\ todo' = grunt_list
            /\ UNCHANGED <<exit_code, run, ci, checked>>
       ELSE IF pc = "grunt"
       THEN /\ pc' = "bower" /\ todo' = bower_list
            /\ UNCHANGED <<exit_code, run, ci, checked>>
       ELSE /\ checked' = PathJoin(temp_dir, "bower_components")
            /\ IF NothingToClean(bower_dir)
               THEN /\ pc' = "exit" /\ exit_code' = 0
                    /\ UNCHANGED <<todo, run, ci>>
               ELSE /\ pc' = "flatten" /\ run' = run + 1 /\ ci' = 0
                    /\ UNCHANGED <<todo, exit_code>>
    /\ UNCHANGED <<listing, staging, bower_dir, out_dirs, out_files, out0,
                   with_version, bower_info, main_list, version, dst_root,
                   matches, error, ops, last, discovered, npm_list, grunt_list,
                   bower_list, calls, cwd, temp_dir, loads>>

\* clean_components_to_static_dir has returned: handle returns and the
\* command exits with status 0.
HandleReturn ==
    /\ pc = "done"
    /\ pc' = "exit"
    /\ exit_code' = 0
    /\ UNCHANGED <<listing, staging, bower_dir, out_dirs, out_files, out0,
                   with_version, bower_info, ci, main_list, version, dst_root,
                   matches, error, run, ops, last, discovered, npm_list,
                   grunt_list, bower_list, todo, calls, cwd, temp_dir,
                   checked, loads>>

\* What the finder may yield: the three description files at the top of two
\* storages, another file, and a bower.json below the top of a storage.
Entries ==
    { Entry("", f, loc) : f \in {"package.json", "Gruntfile.js", "bower.json"},
                          loc \in {"/apps/a", "/apps/b"} }
    \cup { Entry("", "README.md", "/apps/a"), Entry("static", "bower.json", "/apps/a") }

RECURSIVE SeqsUpTo(_, _)
SeqsUpTo(S, n) ==
    IF n = 0 THEN {<<>>}
    ELSE LET shorter == SeqsUpTo(S, n - 1)
         IN  shorter \cup {Append(q, x) : q \in shorter, x \in S}

\* The staged trees "bower install" leaves in the runs of handle.
HandleTrees ==
    { [desc |-> Descs(Doc(m, JStr("3.1.0")), NoFile),
       files |-> Files("A", y, "absent", "absent")] :
        m \in {JNull, JStr(JQ)}, y \in {"B"} }

\* The state in which handle is entered.
InitHandle ==
    /\ discovered \in SeqsUpTo(Entries, MaxDiscovered)
    /\ listing = <<"jquery">>
    /\ \E j \in HandleTrees : staging = ("jquery" :> j)
    /\ bower_dir \in {"missing", "dir"}
    /\ out_files = <<>>
    /\ out_dirs = {}
    /\ out0 = out_files
    /\ with_version \in BOOLEAN
    /\ bower_info = <<>>
    /\ pc = "handle"
    /\ ci = 0
    /\ main_list = <<>>
    /\ version = JNull
    /\ dst_root = ""
    /\ matches = <<>>
    /\ error = ""
    /\ exit_code = 0
    /\ run = 0
    /\ ops = <<>>
    /\ last = NoLast
    /\ npm_list = <<>>
    /\ grunt_list = <<>>
    /\ bower_list = <<>>
    /\ todo = <<>>
    /\ calls = <<>>
    /\ cwd = "/project"
    /\ temp_dir = ""
    /\ checked = ""
    /\ loads = <<>>

NextHandle ==
    \/ HandleStart \/ npm_install \/ grunt_default \/ bower_install
    \/ NextLoop \/ EnterComponent \/ ProcessMatch \/ FlattenReturn
    \/ HandleReturn

SpecHandle == InitHandle /\ [][NextHandle]_vars

\* ------------------------------------------------- the descriptor cache alone

\* The descriptor files the direct calls read.
CachePaths == {<<"jquery", DescriptorNames[1]>>, <<"jquery", DescriptorNames[2]>>}

\* The documents those files hold, at the start and after an edit.
CacheDocs ==
    { Doc(JStr(JQ), JStr("3.1.0")),
      Doc(JNull, JNull),
      Doc(JList(<<JQSrc, EmptyStr>>), JStr("2.0.0")) }

\* Lines 70-83 called with one of the paths.
call_get_bower_main_list ==
    /\ pc = "calls" /\ Len(loads) < MaxCalls
    /\ \E path \in CachePaths :
          LET doc   == staging[path[1]].desc[path[2]]
              cache == get_bower_info(bower_info, path, doc)
          IN  /\ bower_info' = cache
              /\ main_list' = get_bower_main_list(cache[path])
              /\ loads' = Append(loads, Access("main", path, bower_info, cache, doc))
    /\ UNCHANGED <<listing, staging, bower_dir, out_dirs, out_files, out0,
                   with_version, pc, ci, version, dst_root, matches, error,
                   exit_code, run, ops, last, discovered, npm_list, grunt_list,
                   bower_list, todo, calls, cwd, temp_dir, checked>>

\* Lines 85-90 called with one of the paths.
call_get_bower_version ==
    /\ pc = "calls" /\ Len(loads) < MaxCalls
    /\ \E path \in CachePaths :
          LET doc   == staging[path[1]].desc[path[2]]
              cache == get_bower_info(bower_info, path, doc)
          IN  /\ bower_info' = cache
              /\ version' = get_bower_version(cache[path])
              /\ loads' = Append(loads, Access("version", path, bower_info, cache, doc))
    /\ UNCHANGED <<listing, staging, bower_dir, out_dirs, out_files, out0,
                   with_version, pc, ci, main_list, dst_root, matches, error,
                   exit_code, run, ops, last, discovered, npm_list, grunt_list,
                   bower_list, todo, calls, cwd, temp_dir, checked>>

\* Something outside the process rewrites a descriptor file.
EditDescriptor ==
    /\ pc = "calls"
    /\ \E path \in CachePaths, d \in CacheDocs :
          /\ d # staging[path[1]].desc[path[2]]
          /\ staging' = [staging EXCEPT ![path[1]].desc[path[2]] = d]
    /\ UNCHANGED <<listing, bower_dir, out_dirs, out_files, out0, with_version,
                   bower_info, pc, ci, main_list, version, dst_root, matches,
                   error, exit_code, run, ops, last, discovered, npm_list,
                   grunt_list, bower_list, todo, calls, cwd, temp_dir, checked,
                   loads>>

\* A process that is about to call the two methods, its cache empty.
InitCache ==
    /\ listing = <<"jquery">>
    /\ \E b \in CacheDocs, d \in CacheDocs :
          staging = ("jquery" :> [desc |-> Descs(b, d),
                                  files |-> Files("A", "absent", "A", "absent")])
    /\ bower_dir = "dir"
    /\ out_files = <<>>
    /\ out_dirs = {}
    /\ out0 = out_files
    /\ with_version = FALSE
    /\ bower_info = <<>>
    /\ pc = "calls"
    /\ ci = 0
    /\ main_list = <<>>
    /\ version = JNull
    /\ dst_root = ""
    /\ matches = <<>>
    /\ error = ""
    /\ exit_code = 0
    /\ run = 0
    /\ ops = <<>>
    /\ last = NoLast
    /\ discovered = <<>>
    /\ npm_list = <<>>
    /\ grunt_list = <<>>
    /\ bower_list = <<>>
    /\ todo = <<>>
    /\ calls = <<>>
    /\ cwd = "/project"
    /\ temp_dir = "/project/.tmp"
    /\ checked = ""
    /\ loads = <<>>

NextCache == call_get_bower_main_list \/ call_get_bower_version \/ EditDescriptor

SpecCache == InitCache /\ [][NextCache]_vars

\* ------------------------------------------------------- interrupted flatten

\* The process is killed while clean_components_to_static_dir runs: between
\* two passes of the loop body, or inside the next pass after the
\* os.makedirs of line 145 and before the copy of line 148.  A new process,
\* its cache empty, then calls clean_components_to_static_dir on the same
\* tree and on what the killed one left under COMPONENT_ROOT.
Crash ==
    /\ pc = "flatten" /\ run < MaxRuns
    /\ \/ UNCHANGED out_dirs
       \/ /\ matches # <<>>
          /\ LET files    == staging[listing[ci]].files
                 src_path == EffectiveSource(files, Head(matches))
                 dst_path == <<dst_root, Basename(src_path)>>
                 missing  == ~Exists(files, src_path)
                 dst_there == dst_path \in DOMAIN out_files
                 skip     == /\ dst_there /\ ~missing
                             /\ SameDigest(files[src_path], out_files[dst_path])
             IN  /\ ~skip /\ ~(dst_there /\ missing)
                 /\ dst_root \notin out_dirs
          /\ out_dirs' = out_dirs \cup {dst_root}
    /\ pc' = "flatten"
    /\ run' = run + 1
    /\ ci' = 0
    /\ matches' = <<>>
    /\ main_list' = <<>>
    /\ version' = JNull
    /\ dst_root' = ""
    /\ bower_info' = <<>>
    /\ loads' = <<>>
    /\ ops' = <<>>
    /\ last' = NoLast
    /\ UNCHANGED <<listing, staging, bower_dir, out_files, out0, with_version,
                   error, exit_code, discovered, npm_list, grunt_list,
                   bower_list, todo, calls, cwd, temp_dir, checked>>

NextCrash == EnterComponent \/ ProcessMatch \/ FlattenReturn \/ Crash

SpecCrash == InitFlatten /\ [][NextCrash]_vars

\* ------------------------------------------------------------------ claims

\* C1 (as stated): when a flatten run has completed and flatten is run again
\* on the unchanged file system, the second run creates no directory and
\* copies no file.
C1_SecondRunWritesNothing == (run >= 2 /\ pc = "done") => ops = <<>>

\* q is the name s.min.e for the name s.e of p, in the same directory.
IsMinSibling(p, q) ==
    /\ q.dir = p.dir
    /\ Len(q.name) = Len(p.name) + 1
    /\ LET k == IF Len(p.name) >= 2 THEN Len(p.name) ELSE Len(p.name) + 1
       IN  /\ q.name[k] = "min"
           /\ \A i \in 1..Len(q.name) :
                 i # k => q.name[i] = p.name[IF i < k THEN i ELSE i - 1]

\* A staged path holds a file (it is neither absent nor a dangling link).
IsFile(files, p) == files[p] \notin {"absent", "dangling"}

\* The existing s.min.e siblings of a matched path.
MinSiblings(files, p) == {q \in StagePaths : IsMinSibling(p, q) /\ IsFile(files, q)}

\* The descriptor document of a component that is on disk under name n.
OnDisk(c, n) == staging[c].desc[n]

HasDescriptor(c) == OnDisk(c, "bower.json").exists \/ OnDisk(c, ".bower.json").exists

\* The document flatten is to use for a component: bower.json's when that
\* file exists, else .bower.json's.
PrimaryDoc(c) ==
    IF OnDisk(c, "bower.json").exists THEN OnDisk(c, "bower.json")
    ELSE OnDisk(c, ".bower.json")

\* The component whose descriptor flatten has loaded last, if any.
InComponent == ci >= 1 /\ pc \in {"flatten", "done", "raised"} /\ HasDescriptor(listing[ci])

\* C2: for every match whose effective source is a file: when the sibling
\* s.min.e exists, the file placed in the Output Root is named s.min.e and
\* holds the content of s.min.e, else it is named s.e and holds the content
\* of s.e; the match writes no other file.  And from an empty output root
\* with main = dist/jquery.js and both dist/jquery.js and dist/jquery.min.js
\* staged, a completed flatten leaves jquery.min.js and no jquery.js.
C2_MinifiedPreference ==
    /\ (last.set /\ last.outcome # "raise") =>
          LET files == staging[last.comp].files
              sibs  == MinSiblings(files, last.src)
              eff   == IF sibs # {} THEN CHOOSE q \in sibs : TRUE ELSE last.src
              dst   == <<last.root, eff.name>>
          IN  /\ last.base = eff.name
              /\ dst \in DOMAIN out_files
              /\ out_files[dst] = files[eff]
              /\ last.wrote \subseteq {dst}
    /\ ( /\ pc = "done" /\ run = 1 /\ out0 = <<>>
         /\ OnDisk("jquery", "bower.json").exists
         /\ OnDisk("jquery", "bower.json").main = JStr(JQ)
         /\ IsFile(staging["jquery"].files, JQ)
         /\ IsFile(staging["jquery"].files, JQMin) )
       => /\ \E q \in DOMAIN out_files : q[2] = <<"jquery", "min", "js">>
          /\ \A q \in DOMAIN out_files : q[2] # <<"jquery", "js">>

\* C2 witness: a match of dist/jquery.js was redirected to the staged
\* dist/jquery.min.js, which was copied.
C2_Witness ==
    /\ last.set /\ last.outcome = "copy"
    /\ last.src = JQ /\ last.base = <<"jquery", "min", "js">>
    /\ pc = "done" /\ run = 1 /\ out0 = <<>>

\* C3: of each component at most one descriptor is loaded, bower.json when
\* it exists, else .bower.json; main_list and version are those of that
\* document alone; a component with neither file has nothing written.
C3_DescriptorPrecedence ==
    /\ \A path \in DOMAIN bower_info :
          /\ path[1] \in DOMAIN staging
          /\ OnDisk(path[1], path[2]).exists
          /\ path[2] = ".bower.json" => ~OnDisk(path[1], "bower.json").exists
          /\ bower_info[path].main = OnDisk(path[1], path[2]).main
          /\ bower_info[path].version = OnDisk(path[1], path[2]).version
    /\ InComponent =>
          /\ version = PrimaryDoc(listing[ci]).version
          /\ PrimaryDoc(listing[ci]).main.t = "list" =>
                main_list = PrimaryDoc(listing[ci]).main.v
          /\ PrimaryDoc(listing[ci]).main.t = "null" => main_list = <<>>
    /\ \A i \in 1..Len(ops) : HasDescriptor(ops[i].comp)

\* C3 witness: both descriptors of jquery exist, bower.json declares neither
\* main nor version, .bower.json declares both, and flatten has returned.
C3_Witness ==
    /\ pc = "done" /\ ~with_version
    /\ OnDisk("jquery", "bower.json") = Doc(JNull, JNull)
    /\ OnDisk("jquery", ".bower.json").exists
    /\ IsFile(staging["jquery"].files, JQSrc)
    /\ <<"jquery", "bower.json">> \in DOMAIN bower_info

\* C4: under --with-version, a component whose selected descriptor declares
\* no version ends the run in an error, and nothing is written for it,
\* whatever its main entries.
C4_VersionTaggingError ==
    ( /\ ci >= 1 /\ with_version /\ HasDescriptor(listing[ci])
      /\ PrimaryDoc(listing[ci]).version.t = "null" )
    => /\ pc = "raised" /\ error = "TypeError"
       /\ matches = <<>>
       /\ \A i \in 1..Len(ops) : ops[i].comp # listing[ci]
       /\ last.set => last.comp # listing[ci]

\* C4 witness: jquery, second in the listing, declares a main entry that is
\* staged and no version, and the run has ended in the error after the
\* first component was copied.
C4_Witness ==
    /\ pc = "raised" /\ error = "TypeError" /\ ci = 2
    /\ listing[ci] = "jquery"
    /\ main_list # <<>>
    /\ IsFile(staging["jquery"].files, JQ)
    /\ ops # <<>>

\* The calls other than the version probes, as <<command, path>> pairs.
Installs ==
    LET rc == SelectSeq(calls, LAMBDA c : c.cmd # "bower --version")
    IN  [i \in 1..Len(rc) |-> <<rc[i].cmd, rc[i].arg>>]

\* The calls handle is to make for what was discovered.
ExpectedFor(cmd, name) ==
    LET es == SelectSeq(discovered, LAMBDA e : e.dir = "" /\ e.file = name)
    IN  [i \in 1..Len(es) |-> <<cmd, es[i]>>]

ExpectedInstalls ==
    ExpectedFor("npm install", "package.json")
    \o ExpectedFor("grunt", "Gruntfile.js")
    \o ExpectedFor("bower install", "bower.json")

IsPrefix(a, b) == Len(a) <= Len(b) /\ a = SubSeq(b, 1, Len(a))

FailedProbe(c) == c.cmd = "bower --version" /\ c.result # "ok"

\* C5: a probe that does not find the tool ends the pipeline with status 1,
\* a probe that fails with status 2; no command runs after it, flatten is
\* not called and the output root is not written.
C5_FatalToolConditions ==
    \A i \in 1..Len(calls) :
        FailedProbe(calls[i]) =>
            /\ i = Len(calls)
            /\ pc = "exit"
            /\ calls[i].result = "OSError" => exit_code = 1
            /\ calls[i].result = "CalledProcessError" => exit_code = 2
            /\ run = 0 /\ ops = <<>> /\ ~last.set
            /\ out_files = out0 /\ out_dirs = {q[1] : q \in DOMAIN out0}

\* C5 witness: the second probe failed after a first install had created
\* bower_components.
C5_Witness ==
    /\ pc = "exit" /\ exit_code = 2
    /\ bower_dir = "dir"
    /\ \E i \in 1..Len(calls) : calls[i].cmd = "bower install"

\* C6: when bower_components does not exist after the installs, the
\* pipeline exits with status 0, flatten is not called and the output root
\* is left as it was.
C6_NothingToFlatten ==
    /\ (run > 0 \/ pc \in {"flatten", "done", "raised"}) => bower_dir = "dir"
    /\ ( /\ pc = "exit" /\ bower_dir = "missing"
         /\ \A i \in 1..Len(calls) : ~FailedProbe(calls[i]) )
       => /\ exit_code = 0
          /\ Installs = ExpectedInstalls
          /\ run = 0 /\ ops = <<>> /\ ~last.set
          /\ out_files = out0 /\ out_dirs = {q[1] : q \in DOMAIN out0}

\* C6 witness: an install ran, bower_components is still missing, and the
\* pipeline has exited with status 0.
C6_Witness ==
    /\ pc = "exit" /\ exit_code = 0 /\ bower_dir = "missing"
    /\ \E i \in 1..Len(calls) : calls[i].cmd = "bower install"

\* C7: the install calls made are, at any time, a prefix of: one npm install
\* per discovered package.json, then one grunt per Gruntfile.js, then one
\* bower install per bower.json, each kind in discovery order and nothing
\* for any other path; flatten starts only when all of them have been made.
C7_PhaseOrdering ==
    /\ IsPrefix(Installs, ExpectedInstalls)
    /\ (run > 0 \/ pc \in {"flatten", "done", "raised"}) =>
          Installs = ExpectedInstalls

\* C7 witness: one descriptor of each kind was discovered, in the reverse of
\* the order of the phases, and flatten has started.
C7_Witness ==
    /\ run = 1
    /\ Len(discovered) = 3
    /\ discovered[1].file = "bower.json"
    /\ discovered[2].file = "Gruntfile.js"
    /\ discovered[3].file = "package.json"
    /\ Len(Installs) = 3

\* C8: for every pair whose effective source is a file, the copy is made
\* exactly when the destination does not exist or holds another content;
\* a pair that is skipped creates no directory and writes nothing.
C8_DedupCorrectness ==
    (last.set /\ ~last.missing) =>
        LET src_content == staging[last.comp].files[last.eff]
            needed == last.dst_before = "absent" \/ last.dst_before # src_content
            dst == <<last.root, last.base>>
        IN  /\ last.outcome \in {"copy", "skip"}
            /\ (last.outcome = "copy") <=> needed
            /\ (last.wrote = {dst}) <=> needed
            /\ ~needed => last.wrote = {} /\ ~last.mkdir
            /\ needed => out_files[dst] = src_content

\* C8 witness: in a first run, a destination left by an earlier run holds
\* the content of the source and the pair was skipped.
C8_Witness ==
    /\ run = 1 /\ last.set /\ last.outcome = "skip"
    /\ last.dst_before = "A"

\* C9 (as stated): a match whose effective source does not exist is
\* reported and flatten goes on without raising an error.
C9_MissingSourceNonFatal == (last.set /\ last.missing) => pc # "raised"

\* What get_bower_main_list is to return for a value of main, as stated:
\* [] for an absent main, [main] for any string, main for a list.
StatedMainList(j) ==
    IF j.t = "list" THEN j.v ELSE IF j.t = "str" THEN <<j.v>> ELSE <<>>

\* The same with the empty string giving [] as an absent main does.
AmendedMainList(j) ==
    IF j.t = "list" THEN j.v
    ELSE IF j.t = "str" /\ j.v # EmptyStr THEN <<j.v>>
    ELSE <<>>

\* C10 (as stated): get_bower_main_list returns [] for an absent main,
\* [main] for any scalar string, the empty one included, and main unchanged
\* for a list.
C10_MainListAsStated ==
    InComponent => main_list = StatedMainList(PrimaryDoc(listing[ci]).main)

\* C10 (amended): get_bower_main_list returns [] for an absent main and for
\* the empty string, [main] for a non-empty string, and main unchanged for a
\* list.
C10_MainListAmended ==
    InComponent => main_list = AmendedMainList(PrimaryDoc(listing[ci]).main)

\* C10 witness: the three shapes of main have each been normalised: here a
\* list holding an empty string, returned as it is.
C10_Witness ==
    /\ InComponent
    /\ PrimaryDoc(listing[ci]).main.t = "list"
    /\ Len(main_list) = 3
    /\ main_list[2] = EmptyStr

\* The first access of the process to the path of access i.
FirstAccess(i) ==
    CHOOSE j \in 1..i :
        /\ loads[j].path = loads[i].path
        /\ \A k \in 1..(j - 1) : loads[k].path # loads[i].path

\* C11: over any sequence of get_bower_main_list and get_bower_version calls
\* of one process, the file at a path is read and parsed by the first call
\* for that path only, and every call returns the values of the document
\* read then, whatever the file holds by now.
C11_ParsedAtMostOnce ==
    /\ \A i \in 1..Len(loads) :
          /\ loads[i].parsed <=> (i = FirstAccess(i))
          /\ loads[i].stored = loads[FirstAccess(i)].disk
    /\ (pc = "calls" /\ loads # <<>>) =>
          LET e == loads[Len(loads)]
          IN  /\ e.kind = "main" => main_list = AmendedMainList(e.stored.main)
              /\ e.kind = "version" => version = e.stored.version

\* C11 witness: get_bower_version loaded a path, the file was rewritten, and
\* get_bower_main_list was then called for the same path.
C11_Witness ==
    /\ pc = "calls" /\ Len(loads) >= 2
    /\ loads[1].kind = "version" /\ loads[2].kind = "main"
    /\ loads[1].path = loads[2].path
    /\ loads[2].disk.main # loads[1].disk.main
    /\ loads[2].disk.main.t = "str"

\* The positions of calls that hold the command cmd.
CallsOf(cmd) == {i \in 1..Len(calls) : calls[i].cmd = cmd}

\* C12: every bower install command comes right after a version probe that
\* succeeded, every successful probe is followed by its install command,
\* and once the loop of line 184 is over there has been one probe per
\* component descriptor.
C12_ProbeBeforeInstall ==
    /\ \A i \in CallsOf("bower install") :
          /\ i > 1
          /\ calls[i - 1].cmd = "bower --version"
          /\ calls[i - 1].result = "ok"
    /\ \A i \in CallsOf("bower --version") :
          calls[i].result = "ok" =>
             /\ i < Len(calls)
             /\ calls[i + 1].cmd = "bower install"
    /\ (run > 0 \/ pc \in {"flatten", "done", "raised"}) =>
          /\ Cardinality(CallsOf("bower --version")) = Len(bower_list)
          /\ Cardinality(CallsOf("bower install")) = Len(bower_list)

\* C12 witness: two component descriptors were installed, each after a
\* probe of its own, and flatten has started.
C12_Witness ==
    /\ run = 1
    /\ Len(bower_list) = 2
    /\ Cardinality(CallsOf("bower --version")) = 2
    /\ Cardinality(CallsOf("bower install")) = 2

\* The pairs of a whole flatten run, in loop order, each as the destination
\* and the content of the effective source.
RECURSIVE PairsOf(_, _, _)
PairsOf(root, files, ms) ==
    IF ms = <<>> THEN <<>>
    ELSE LET e == EffectiveSource(files, Head(ms))
         IN  <<[dst |-> <<root, e.name>>, content |-> files[e]]>>
             \o PairsOf(root, files, Tail(ms))

\* The pairs of one component directory: none without a descriptor, none
\* under --with-version without a declared version.
ComponentPairs(c) ==
    IF HasDescriptor(c) /\ (with_version => PrimaryDoc(c).version.t = "str")
    THEN PairsOf(IF with_version
                 THEN c \o "-" \o PrimaryDoc(c).version.v
                 ELSE c,
                 staging[c].files,
                 AllMatches(staging[c].files,
                            FilterNone(AmendedMainList(PrimaryDoc(c).main))))
    ELSE <<>>

RECURSIVE AllPairs(_)
AllPairs(dirs) ==
    IF dirs = <<>> THEN <<>>
    ELSE ComponentPairs(Head(dirs)) \o AllPairs(Tail(dirs))

\* The files under COMPONENT_ROOT once every pair has been copied in turn
\* over the files out, no copy left out.
RECURSIVE CopyAll(_, _)
CopyAll(out, pairs) ==
    IF pairs = <<>> THEN out
    ELSE CopyAll((Head(pairs).dst :> Head(pairs).content) @@ out, Tail(pairs))

\* C13: a flatten run that completes leaves under COMPONENT_ROOT the files
\* that were there at the start overlaid with every pair in turn, and the
\* directories of the start and of the pairs: the same whether it ran
\* uninterrupted from the initial output or resumed, on the unchanged tree,
\* what interrupted runs had left.
C13_CrashResume ==
    pc = "done" =>
        /\ out_files = CopyAll(out0, AllPairs(listing))
        /\ out_dirs = {q[1] : q \in DOMAIN out0}
                      \cup {AllPairs(listing)[i].dst[1] :
                                i \in 1..Len(AllPairs(listing))}

\* C13 witness: a run was interrupted after the directory was made and one
\* of two files copied, and the run that followed has completed, copying
\* the other.
C13_Witness ==
    /\ pc = "done" /\ run = 2
    /\ Len(AllPairs(listing)) >= 2
    /\ Cardinality(DOMAIN out_files) = Cardinality(DOMAIN out0) + 2
    /\ Len(ops) = 1 /\ ops[1].op = "copy"

ResolvedPairs ==
    UNION {{ComponentPairs(listing[k])[i] :
                i \in 1..Len(ComponentPairs(listing[k]))} :
           k \in 1..Len(listing)}

\* C14: no step of the flatten phase removes a file or a directory under
\* COMPONENT_ROOT or changes anything in the staging directory; a file it
\* creates or changes is the destination of a resolved pair and receives
\* that pair's content, and a directory it creates is the Output Root of a
\* resolved pair.
C14_OnlyAddsOrOverwrites ==
    [][/\ DOMAIN out_files \subseteq DOMAIN out_files'
       /\ out_dirs \subseteq out_dirs'
       /\ staging' = staging
       /\ listing' = listing
       /\ \A q \in DOMAIN out_files' :
             (q \notin DOMAIN out_files \/ out_files'[q] # out_files[q]) =>
                \E pr \in ResolvedPairs :
                    pr.dst = q /\ pr.content = out_files'[q]
       /\ \A d \in out_dirs' \ out_dirs :
             \E pr \in ResolvedPairs : pr.dst[1] = d]_vars

\* C14 witness: a copy has overwritten a file of other content while
\* another file was under COMPONENT_ROOT.
C14_Witness ==
    /\ last.set /\ last.outcome = "copy"
    /\ last.dst_before \notin {"absent", out_files[<<last.root, last.base>>]}
    /\ Cardinality(DOMAIN out_files) >= 2

\* The Output Root of component directory n, relative to COMPONENT_ROOT.
OutputRoot(n) ==
    IF with_version THEN n \o "-" \o PrimaryDoc(n).version.v ELSE n

\* C15: every directory made and every file copied for component directory
\* n is made as, or copied into, COMPONENT_ROOT/n without --with-version
\* and COMPONENT_ROOT/n-v with it, v being the version the selected
\* descriptor declares.
C15_OutputRootLayout ==
    /\ \A i \in 1..Len(ops) :
          /\ ops[i].root = OutputRoot(ops[i].comp)
          /\ ops[i].op = "copy" =>
                <<OutputRoot(ops[i].comp), ops[i].base>> \in DOMAIN out_files
    /\ (pc = "flatten" /\ matches # <<>>) => dst_root = OutputRoot(listing[ci])
    /\ last.set =>
          /\ last.root = OutputRoot(last.comp)
          /\ last.wrote \subseteq {<<OutputRoot(last.comp), last.base>>}

\* C15 witness: jquery declares a version and a file of it has been copied
\* under --with-version, into jquery-<version>.
C15_Witness ==
    /\ with_version
    /\ last.set /\ last.outcome = "copy" /\ last.comp = "jquery"
    /\ PrimaryDoc("jquery").version.t = "str"
    /\ last.wrote = {<<"jquery" \o "-" \o PrimaryDoc("jquery").version.v,
                       last.base>>}
    /\ <<"jquery", last.base>> \notin DOMAIN out_files

\* The same without --with-version: the file is under jquery although a
\* version is declared.
C15_WitnessUntagged ==
    /\ ~with_version
    /\ last.set /\ last.outcome = "copy" /\ last.comp = "jquery"
    /\ PrimaryDoc("jquery").version.t = "str"
    /\ last.wrote = {<<"jquery", last.base>>}

\* A component directory for which flatten has nothing to copy in the first
\* run: it has a descriptor and an Output Root, and either no pair (main
\* absent or empty, or no pattern matching a file) or only pairs whose
\* destinations held the sources' contents at the start.
Idle(c) ==
    /\ HasDescriptor(c)
    /\ with_version => PrimaryDoc(c).version.t = "str"
    /\ \A i \in 1..Len(ComponentPairs(c)) :
          LET pr == ComponentPairs(c)[i]
          IN  pr.dst \in DOMAIN out0 /\ out0[pr.dst] = pr.content

\* Flatten makes no directory, copies no file and raises no error for an
\* idle component, and goes on to the next one.
C16_NothingForIdleComponent ==
    \A k \in 1..Len(listing) :
        (run = 1 /\ Idle(listing[k])) =>
            /\ \A i \in 1..Len(ops) : ops[i].comp # listing[k]
            /\ (pc = "raised") => ci # k
            /\ (pc = "done") => ci >= k

\* Every os.makedirs of an Output Root is followed at once by a copy into
\* that Output Root.
C16_MakedirsThenCopy ==
    \A i \in 1..Len(ops) :
        ops[i].op = "makedirs" =>
            /\ i < Len(ops)
            /\ ops[i + 1].op = "copy"
            /\ ops[i + 1].root = ops[i].root

\* C16 (as stated): an Output Root is created only immediately before a
\* copy into it, and nothing is created, copied or raised for a component
\* with an absent or empty main list, with patterns matching no file, or
\* with every pair skipped.
C16_LazyOutputRoot == C16_MakedirsThenCopy /\ C16_NothingForIdleComponent

\* A directory is left without the copy only where the effective source
\* does not exist (the case of C9).
C16_MakedirsAloneOnlyWhenMissing ==
    ~C16_MakedirsThenCopy => (last.set /\ last.missing /\ pc = "raised")

\* C17: the staging directory given to every "bower install" and the
\* directory whose bower_components is tested and flattened are the one
\* absolute path made from the working directory handle started in,
\* whatever directories npm_install and grunt_default changed to before.
C17_StagingDirFixed ==
    /\ \A i \in CallsOf("bower install") : calls[i].dir = "/project/.tmp"
    /\ pc # "handle" => temp_dir = "/project/.tmp"
    /\ (run > 0 \/ (pc = "exit" /\ exit_code = 0)) =>
          checked = "/project/.tmp/bower_components"
    /\ checked \in {"", "/project/.tmp/bower_components"}

\* C17 witness: npm_install and grunt_default changed the working directory
\* to two different directories, bower install was then given a staging
\* directory other than the working directory, and flatten was entered.
C17_Witness ==
    /\ run = 1
    /\ cwd # "/project"
    /\ \E i \in CallsOf("npm install"), j \in CallsOf("grunt") :
          calls[i].dir # calls[j].dir /\ calls[j].dir = cwd
    /\ \E i \in CallsOf("bower install") : calls[i].dir # cwd
    /\ checked # ""

====
